---- MODULE Spec2Model ----
(***************************************************************************)
(* Model of tk_tools/groups.py: the paginated spreadsheet viewer           *)
(* (SpreadSheetReader over an EntryGrid), the Calendar date picker, and the *)
(* Grid / EntryGrid / KeyValueEntry forms.                                  *)
(* Widgets are modelled by the fields the handlers read and write; layout  *)
(* (grid/pack/place geometry, fonts, styles) is left out.                  *)
(***************************************************************************)
EXTENDS Integers, Sequences, FiniteSets, TLC

\* ------------------------------------------------------------------ bounds
\* Largest sheet modelled (rows, columns), largest page size, and the largest
\* offset a move down/right may reach (the code has no such limit).
MaxRows == 3
MaxCols == 3
MaxDisplay == 2
MaxOffset == 4
\* How many months the Calendar may be moved away from the month it was
\* constructed with, in either direction.
MaxNav == 2
MaxGridRows == 3
MaxGridCols == 2
MaxKeys == 2

\* SpreadSheetReader builds its EntryGrid with num_of_columns=8.
num_of_columns == 8

VARIABLES
    \* SpreadSheetReader
    sheet,             \* the workbook sheet at self.path: [nrows, ncols]
    rows_to_display,   \* self.rows_to_display
    cols_to_display,   \* self.cols_to_display
    current_position,  \* self.current_position = (row, col)
    rows,              \* self.entry_grid.rows: rows of Entry widgets
    last_call,         \* the handler that ran last, its argument, the position it started from
    \* Calendar
    kwargs,            \* the year and month the Calendar was constructed with
    _date,             \* self._date: [year, month, day]
    _selection,        \* self._selection: None or (text, item, column)
    callback,          \* self.callback is not None
    items,             \* the values of the six Treeview items self._items
    hist,              \* the Calendar handler that ran last and what it did
    click,             \* the last click's (row, column, bbox), where clicks are recorded
    \* Grid / EntryGrid / KeyValueEntry
    form_grid,         \* an EntryGrid: [num_of_columns, headers, rows]
    kve,               \* a KeyValueEntry: its rows (keys, values, defaults, unit_labels, enables)
    form_hist          \* the form operation that ran last, its arguments and what it started from

sheetVars == <<sheet, rows_to_display, cols_to_display, current_position, rows, last_call>>

calVars == <<kwargs, _date, _selection, callback, items, hist, click>>

formVars == <<form_grid, kve, form_hist>>

vars == <<sheetVars, calVars, formVars>>

None == <<>>

Min(a, b) == IF a < b THEN a ELSE b

Max(a, b) == IF a > b THEN a ELSE b

\* Python's s[a:b] (0-based, end exclusive): a negative index counts from the end,
\* both ends are clipped to 0..len(s), and an empty range gives the empty list.
SliceIndex(s, x) == IF x < 0 THEN Max(x + Len(s), 0) ELSE Min(x, Len(s))

Slice(s, a, b) ==
    LET lo == SliceIndex(s, a)
        hi == SliceIndex(s, b)
    IN [k \in 1..(hi - lo) |-> s[lo + k]]

\* ---------------------------------------------------------------- the sheet
\* Row i (0-based) of the sheet as xlrd yields it: ncols cells; a cell's value is
\* identified by its coordinates.
sheet_row(i) == [j \in 1..sheet.ncols |-> <<i, j - 1>>]

\* ---------------------------------------------------------------- EntryGrid
\* tk.Entry(self) followed by entry.insert(0, contents): an entry holds its
\* text and whether <Tab> is bound on it.
Entry(contents) == [text |-> contents, tab |-> FALSE]

\* The row of entries add_row builds: one entry per element of data, or
\* num_of_columns empty entries when data is empty or None.
new_row(data) ==
    IF Len(data) > 0
    THEN [i \in 1..Len(data) |-> Entry(data[i])]
    ELSE [i \in 1..num_of_columns |-> Entry(<<>>)]

\* EntryGrid.add_row(data) on the grid `grid` (no headers): append the row, unbind
\* <Tab> everywhere, bind it on the last entry of the last row.
add_row(grid, data) ==
    LET appended == Append(grid, new_row(data))
        n == Len(appended)
    IN [r \in 1..n |->
          [c \in 1..Len(appended[r]) |->
              [appended[r][c] EXCEPT !.tab = (r = n /\ c = Len(appended[n]))]]]

\* Grid.remove_row(row_number) with row_number = 0: pops the first row.
remove_row(grid) == IF Len(grid) = 0 THEN grid ELSE Tail(grid)

\* Grid.clear(): remove_row(0) once per row.
RECURSIVE clear_n(_, _)
clear_n(grid, n) == IF n = 0 THEN grid ELSE clear_n(remove_row(grid), n - 1)

clear(grid) == clear_n(grid, Len(grid))

\* ------------------------------------------------------- SpreadSheetReader
\* The loop of read_xl from sheet row i on: every row with i >= row_number is
\* sliced and added; the loop breaks after the row with
\* i >= rows_to_display + row_number.
RECURSIVE read_rows(_, _, _, _)
read_rows(i, row_number, column_number, grid) ==
    IF i >= sheet.nrows THEN grid
    ELSE LET data == Slice(sheet_row(i), column_number,
                           column_number + cols_to_display)
             g == IF i >= row_number THEN add_row(grid, data) ELSE grid
         IN IF i >= rows_to_display + row_number
            THEN g
            ELSE read_rows(i + 1, row_number, column_number, g)

read_xl(row_number, column_number, grid) ==
    read_rows(0, row_number, column_number, grid)

\* No SpreadSheetReader has been constructed.
NoSheet ==
    /\ sheet = [nrows |-> 0, ncols |-> 0]
    /\ rows_to_display = 0
    /\ cols_to_display = 0
    /\ current_position = <<0, 0>>
    /\ rows = <<>>
    /\ last_call = [op |-> "none", page |-> FALSE, from |-> <<0, 0>>]

\* No Calendar has been constructed.
NoCalendar ==
    /\ kwargs = None
    /\ _date = None
    /\ _selection = None
    /\ callback = FALSE
    /\ items = <<>>
    /\ hist = None
    /\ click = None

\* No Grid and no KeyValueEntry has been constructed.
NoForms ==
    /\ form_grid = [num_of_columns |-> 0, headers |-> <<>>, rows |-> <<>>]
    /\ kve = <<>>
    /\ form_hist = [op |-> "none", raised |-> "none", args |-> None, before |-> None]

InitSheet ==
    /\ NoCalendar
    /\ NoForms
    /\ sheet \in [nrows : 1..MaxRows, ncols : 1..MaxCols]
    /\ rows_to_display \in 1..MaxDisplay
    /\ cols_to_display \in 1..MaxDisplay
    /\ current_position = <<0, 0>>
    /\ rows = read_xl(0, 0, <<>>)
    /\ last_call = [op |-> "__init__", page |-> FALSE, from |-> <<0, 0>>]

Called(name, page) ==
    last_call' = [op |-> name, page |-> page, from |-> current_position]

move_right(page) ==
    LET row_pos == current_position[1]
        col_pos == current_position[2]
        step == IF page THEN cols_to_display ELSE 1
    IN /\ col_pos + step <= MaxOffset
       /\ current_position' = <<row_pos, col_pos + step>>
       /\ rows' = read_xl(row_pos, col_pos + step, clear(rows))
       /\ Called("move_right", page)
       /\ UNCHANGED <<sheet, rows_to_display, cols_to_display, calVars, formVars>>

\* move_left without the "not page and col_pos == 0" early return.
move_left_unguarded(page) ==
    LET row_pos == current_position[1]
        col_pos == current_position[2]
        refused == page /\ col_pos < cols_to_display
        step == IF page THEN cols_to_display ELSE 1
    IN /\ IF refused
          THEN UNCHANGED <<current_position, rows>>
          ELSE /\ current_position' = <<row_pos, col_pos - step>>
               /\ rows' = read_xl(row_pos, col_pos - step, clear(rows))
       /\ Called("move_left", page)
       /\ UNCHANGED <<sheet, rows_to_display, cols_to_display, calVars, formVars>>

move_left(page) ==
    LET row_pos == current_position[1]
        col_pos == current_position[2]
        refused == \/ (~page /\ col_pos = 0)
                   \/ (page /\ col_pos < cols_to_display)
        step == IF page THEN cols_to_display ELSE 1
    IN /\ IF refused
          THEN UNCHANGED <<current_position, rows>>
          ELSE /\ current_position' = <<row_pos, col_pos - step>>
               /\ rows' = read_xl(row_pos, col_pos - step, clear(rows))
       /\ Called("move_left", page)
       /\ UNCHANGED <<sheet, rows_to_display, cols_to_display, calVars, formVars>>

\* move_down with an upper clamp against the sheet's extent (the move is dropped
\* when it would leave the sheet).
move_down_clamped(page) ==
    LET row_pos == current_position[1]
        col_pos == current_position[2]
        step == IF page THEN rows_to_display ELSE 1
        refused == row_pos + step >= sheet.nrows
    IN /\ row_pos + step <= MaxOffset
       /\ IF refused
          THEN UNCHANGED <<current_position, rows>>
          ELSE /\ current_position' = <<row_pos + step, col_pos>>
               /\ rows' = read_xl(row_pos + step, col_pos, clear(rows))
       /\ Called("move_down", page)
       /\ UNCHANGED <<sheet, rows_to_display, cols_to_display, calVars, formVars>>

move_down(page) ==
    LET row_pos == current_position[1]
        col_pos == current_position[2]
        step == IF page THEN rows_to_display ELSE 1
    IN /\ row_pos + step <= MaxOffset
       /\ current_position' = <<row_pos + step, col_pos>>
       /\ rows' = read_xl(row_pos + step, col_pos, clear(rows))
       /\ Called("move_down", page)
       /\ UNCHANGED <<sheet, rows_to_display, cols_to_display, calVars, formVars>>

\* move_up that clamps a too-long page move to offset 0 instead of refusing it.
move_up_clamped(page) ==
    LET row_pos == current_position[1]
        col_pos == current_position[2]
        step == IF page THEN rows_to_display ELSE 1
        target == Max(row_pos - step, 0)
    IN /\ IF target = row_pos
          THEN UNCHANGED <<current_position, rows>>
          ELSE /\ current_position' = <<target, col_pos>>
               /\ rows' = read_xl(target, col_pos, clear(rows))
       /\ Called("move_up", page)
       /\ UNCHANGED <<sheet, rows_to_display, cols_to_display, calVars, formVars>>

move_up(page) ==
    LET row_pos == current_position[1]
        col_pos == current_position[2]
        refused == \/ (~page /\ row_pos = 0)
                   \/ (page /\ row_pos < rows_to_display)
        step == IF page THEN rows_to_display ELSE 1
    IN /\ IF refused
          THEN UNCHANGED <<current_position, rows>>
          ELSE /\ current_position' = <<row_pos - step, col_pos>>
               /\ rows' = read_xl(row_pos - step, col_pos, clear(rows))
       /\ Called("move_up", page)
       /\ UNCHANGED <<sheet, rows_to_display, cols_to_display, calVars, formVars>>

NextSheet ==
    \/ \E page \in BOOLEAN : move_right(page)
    \/ \E page \in BOOLEAN : move_left(page)
    \/ \E page \in BOOLEAN : move_down(page)
    \/ \E page \in BOOLEAN : move_up(page)

SpecSheet == InitSheet /\ [][NextSheet]_vars

\* ------------------------------------------------- datetime and calendar
\* datetime.MINYEAR, datetime.MAXYEAR and calendar.SUNDAY (Monday is 0).
MINYEAR == 1
MAXYEAR == 9999
fwday == 6

\* calendar.isleap
isleap(year) == year % 4 = 0 /\ (year % 100 # 0 \/ year % 400 = 0)

mdays == <<31, 28, 31, 30, 31, 30, 31, 31, 30, 31, 30, 31>>

days_before_month_table == <<0, 31, 59, 90, 120, 151, 181, 212, 243, 273, 304, 334>>

days_in_month(year, month) ==
    mdays[month] + (IF month = 2 /\ isleap(year) THEN 1 ELSE 0)

days_before_year(year) ==
    LET y == year - 1
    IN y * 365 + (y \div 4) - (y \div 100) + (y \div 400)

days_before_month(year, month) ==
    days_before_month_table[month] + (IF month > 2 /\ isleap(year) THEN 1 ELSE 0)

\* date.toordinal(): 1 is 0001-01-01.
toordinal(d) == days_before_year(d.year) + days_before_month(d.year, d.month) + d.day

\* date.fromordinal(n), by the 400/100/4/1-year cycles.
fromordinal(n) ==
    LET n0 == n - 1
        n400 == n0 \div 146097
        r400 == n0 % 146097
        n100 == r400 \div 36524
        r100 == r400 % 36524
        n4 == r100 \div 1461
        r4 == r100 % 1461
        n1 == r4 \div 365
        r1 == r4 % 365
        year == n400 * 400 + 1 + n100 * 100 + n4 * 4 + n1
        leapyear == n1 = 3 /\ (n4 # 24 \/ n100 = 3)
        month0 == (r1 + 50) \div 32
        preceding0 == days_before_month_table[month0]
                      + (IF month0 > 2 /\ leapyear THEN 1 ELSE 0)
        month == IF preceding0 > r1 THEN month0 - 1 ELSE month0
        preceding == IF preceding0 > r1
                     THEN preceding0 - (mdays[month]
                                        + (IF month = 2 /\ leapyear THEN 1 ELSE 0))
                     ELSE preceding0
    IN IF n1 = 4 \/ n100 = 4
       THEN [year |-> year - 1, month |-> 12, day |-> 31]
       ELSE [year |-> year, month |-> month, day |-> r1 - preceding + 1]

\* datetime(year, month, day): the value, or ValueError for a field out of range.
datetime(year, month, day) ==
    IF /\ year \in MINYEAR..MAXYEAR
       /\ month \in 1..12
       /\ day \in 1..days_in_month(year, month)
    THEN [raised |-> "none",
          value |-> [year |-> year, month |-> month, day |-> day]]
    ELSE [raised |-> "ValueError", value |-> None]

\* d + timedelta(days=n): the value, or OverflowError outside date.min..date.max.
add_days(d, n) ==
    LET o == toordinal(d) + n
    IN IF 0 < o /\ o <= toordinal([year |-> MAXYEAR, month |-> 12, day |-> 31])
       THEN [raised |-> "none", value |-> fromordinal(o)]
       ELSE [raised |-> "OverflowError", value |-> None]

\* calendar.weekday(year, month, day): Monday is 0.
weekday(year, month, day) ==
    (toordinal([year |-> year, month |-> month, day |-> day]) + 6) % 7

\* calendar.monthrange(year, month) = (weekday of day 1, number of days).
monthrange(year, month) == <<weekday(year, month, 1), days_in_month(year, month)>>

\* itermonthdays that ignores the first weekday (weeks starting on Monday).
itermonthdays_monday_first(year, month) ==
    LET day1 == monthrange(year, month)[1]
        ndays == monthrange(year, month)[2]
        days_before == day1
        days_after == (-day1 - ndays) % 7
    IN [k \in 1..(days_before + ndays + days_after) |->
          IF k > days_before /\ k <= days_before + ndays
          THEN k - days_before
          ELSE 0]

\* Calendar.itermonthdays: zeros before day 1 back to the first weekday, the
\* days, zeros up to the end of the last week.
itermonthdays(year, month) ==
    LET day1 == monthrange(year, month)[1]
        ndays == monthrange(year, month)[2]
        days_before == (day1 - fwday) % 7
        days_after == (fwday - day1 - ndays) % 7
    IN [k \in 1..(days_before + ndays + days_after) |->
          IF k > days_before /\ k <= days_before + ndays
          THEN k - days_before
          ELSE 0]

\* Calendar.monthdayscalendar: the days in weeks of seven.
monthdayscalendar(year, month) ==
    LET days == itermonthdays(year, month)
    IN [w \in 1..(Len(days) \div 7) |-> [c \in 1..7 |-> days[(w - 1) * 7 + c]]]

\* ---------------------------------------------------------------- Calendar
\* '%02d' % day, as its digits; '' is the empty sequence.
Fmt02d(day) == IF day < 100 THEN <<day \div 10, day % 10>>
               ELSE <<day \div 100, (day \div 10) % 10, day % 10>>

\* int(text) of a string of digits.
RECURSIVE int(_)
int(text) ==
    IF Len(text) = 0 THEN 0
    ELSE 10 * int(SubSeq(text, 1, Len(text) - 1)) + text[Len(text)]

\* _build_calendar over five items instead of six.
build_calendar_five_items(d) ==
    LET cal == monthdayscalendar(d.year, d.month)
    IN [indx \in 1..5 |->
          LET week == IF indx <= Len(cal) THEN cal[indx] ELSE <<>>
          IN [c \in 1..Len(week) |->
                IF week[c] # 0 THEN Fmt02d(week[c]) ELSE <<>>]]

\* What _build_calendar stores in the six items for the month of date d.
build_calendar(d) ==
    LET cal == monthdayscalendar(d.year, d.month)
    IN [indx \in 1..6 |->
          LET week == IF indx <= Len(cal) THEN cal[indx] ELSE <<>>
          IN [c \in 1..Len(week) |->
                IF week[c] # 0 THEN Fmt02d(week[c]) ELSE <<>>]]

\* ttk's conversion of an item value read back: an int when the string parses as
\* one, else the string.
convert_stringval(value) ==
    IF Len(value) > 0 THEN [int |-> int(value)] ELSE [str |-> value]

\* widget.item(item)['values']
item_values(item) ==
    [c \in 1..Len(items[item]) |-> convert_stringval(items[item][c])]

\* Python's `not v` for such a value.
Falsy(v) == v = [str |-> <<>>] \/ v = [int |-> 0]

\* The months a Calendar is constructed with (kwargs year, month).
StartMonths ==
    { [year |-> 1, month |-> 1],
      [year |-> 2023, month |-> 12],
      [year |-> 9999, month |-> 12] }

\* The rows a click can fall on: -1 is no row, 0 the weekday header item, 1..6
\* the items of self._items; the columns: 0 is no column, 1..7 are '#1'..'#7'.
\* Clicks are drawn from the first week (leading blanks), the fifth and sixth
\* (days 29 to 31, trailing blanks, an empty row), the header and no row; weeks
\* two to four hold seven days in every month, like the day cells of the others.
ClickRows == {-1, 0, 1, 5, 6}
ClickColumns == 0..7

\* The handler that ran, the _date it started from, the exception it raised, how
\* often it invoked the callback, and whether a click has set the selection since
\* construction or the last month change.
Hist(op, from, raised, calls, clicked) ==
    [op |-> op, from |-> from, raised |-> raised, calls |-> calls,
     clicked |-> clicked]

InitCalendar ==
    /\ NoSheet
    /\ NoForms
    /\ kwargs \in StartMonths
    /\ _date = datetime(kwargs.year, kwargs.month, 1).value
    /\ _selection = None
    /\ callback \in BOOLEAN
    /\ items = build_calendar(_date)
    /\ hist = Hist("__init__", _date, "none", 0, FALSE)
    /\ click = None

\* _pressed with the callback invoked before the "date is empty" return.
_pressed_calls_back_on_blank(item, column, bbox) ==
    LET inert == Hist("_pressed", _date, "none", 0, hist.clicked)
        called == Hist("_pressed", _date, "none", IF callback THEN 1 ELSE 0,
                       hist.clicked)
    IN /\ IF column = 0 \/ item \notin 1..6
          THEN /\ hist' = inert
               /\ UNCHANGED _selection
          ELSE IF Len(item_values(item)) = 0
          THEN /\ hist' = inert
               /\ UNCHANGED _selection
          ELSE IF Falsy(item_values(item)[column])
          THEN /\ hist' = called
               /\ UNCHANGED _selection
          ELSE IF ~bbox
          THEN /\ hist' = inert
               /\ UNCHANGED _selection
          ELSE /\ _selection' = <<Fmt02d(item_values(item)[column].int), item, column>>
               /\ hist' = Hist("_pressed", _date, "none",
                               IF callback THEN 1 ELSE 0, TRUE)
       /\ UNCHANGED <<kwargs, _date, callback, items, sheetVars, formVars>>

\* Calendar._pressed for a click on row `item`, column `column`; bbox tells
\* whether widget.bbox(item, column) is non-empty.
_pressed(item, column, bbox) ==
    LET inert == Hist("_pressed", _date, "none", 0, hist.clicked)
    IN /\ IF column = 0 \/ item \notin 1..6
          THEN /\ hist' = inert
               /\ UNCHANGED _selection
          ELSE IF Len(item_values(item)) = 0
          THEN /\ hist' = inert
               /\ UNCHANGED _selection
          ELSE IF Falsy(item_values(item)[column])
          THEN /\ hist' = inert
               /\ UNCHANGED _selection
          ELSE IF ~bbox
          THEN /\ hist' = inert
               /\ UNCHANGED _selection
          ELSE /\ _selection' = <<Fmt02d(item_values(item)[column].int), item, column>>
               /\ hist' = Hist("_pressed", _date, "none",
                               IF callback THEN 1 ELSE 0, TRUE)
       /\ UNCHANGED <<kwargs, _date, callback, items, sheetVars, formVars>>

\* Calendar.add_callback
add_callback ==
    /\ callback' = TRUE
    /\ hist' = Hist("add_callback", _date, "none", 0, hist.clicked)
    /\ UNCHANGED <<kwargs, _date, _selection, items, click, sheetVars, formVars>>

\* Months between the displayed month and the month of construction.
MonthsFromStart == (_date.year * 12 + _date.month) - (kwargs.year * 12 + kwargs.month)

\* _prev_month without the second assignment that resets the day to 1.
prev_month_date_last_day(d) == add_days(d, -1)

\* self._date - timedelta(days=1), then datetime(year, month, 1).
prev_month_date(d) ==
    LET r == add_days(d, -1)
    IN IF r.raised # "none" THEN r
       ELSE datetime(r.value.year, r.value.month, 1)

\* _next_month adding a fixed 30 days instead of the month's length + 1.
next_month_date_30_days(d) ==
    LET r == add_days(d, 30)
    IN IF r.raised # "none" THEN r
       ELSE datetime(r.value.year, r.value.month, 1)

\* self._date + timedelta(days=monthrange(year, month)[1] + 1), then
\* datetime(year, month, 1).
next_month_date(d) ==
    LET r == add_days(d, monthrange(d.year, d.month)[2] + 1)
    IN IF r.raised # "none" THEN r
       ELSE datetime(r.value.year, r.value.month, 1)

\* A month button's handler: an exception leaves _date and the items as they
\* were (Tk reports it and goes on); a month change starts a month without a
\* click.
Navigate(op, r) ==
    /\ IF r.raised # "none"
       THEN UNCHANGED <<_date, items>>
       ELSE /\ _date' = r.value
            /\ items' = build_calendar(r.value)
    /\ hist' = Hist(op, _date, r.raised, 0, r.raised # "none" /\ hist.clicked)
    /\ UNCHANGED <<kwargs, _selection, callback, click, sheetVars, formVars>>

_prev_month ==
    /\ MonthsFromStart > -MaxNav
    /\ Navigate("_prev_month", prev_month_date(_date))

_next_month ==
    /\ MonthsFromStart < MaxNav
    /\ Navigate("_next_month", next_month_date(_date))

\* The selection property: None, the date, or the ValueError of datetime().
selection ==
    IF _selection = None
    THEN [raised |-> "none", value |-> None]
    ELSE datetime(_date.year, _date.month, int(_selection[1]))

\* The calendar under clicks and month navigation.
NextCalendar ==
    \/ \E item \in ClickRows, column \in ClickColumns, bbox \in BOOLEAN :
          _pressed(item, column, bbox) /\ UNCHANGED click
    \/ add_callback
    \/ _prev_month
    \/ _next_month

SpecCalendar == InitCalendar /\ [][NextCalendar]_vars

\* The calendar of one month under clicks, each click recorded.
NextPressed ==
    \/ \E item \in ClickRows, column \in ClickColumns, bbox \in BOOLEAN :
          /\ _pressed(item, column, bbox)
          /\ click' = [item |-> item, column |-> column, bbox |-> bbox]
    \/ add_callback

SpecPressed == InitCalendar /\ [][NextPressed]_vars

\* The months whose grids are built: every month of a first, a last, a leap, a
\* common, a century-common and a century-leap year, and of a year whose
\* February fills exactly four weeks.
BuildMonths ==
    [year : {1, 1900, 2000, 2023, 2024, 2026, 9999}, month : 1..12]

InitBuild ==
    /\ NoSheet
    /\ NoForms
    /\ kwargs \in BuildMonths
    /\ _date = datetime(kwargs.year, kwargs.month, 1).value
    /\ _selection = None
    /\ callback = FALSE
    /\ items = build_calendar(_date)
    /\ hist = Hist("__init__", _date, "none", 0, FALSE)
    /\ click = None

\* The calendar built at construction and rebuilt by month navigation.
NextBuild ==
    \/ _prev_month
    \/ _next_month

SpecBuild == InitBuild /\ [][NextBuild]_vars

\* The seven weekday columns of the Treeview, and the text it shows at (item,
\* column): a column beyond the item's values shows as empty.
WeekColumns == 1..7

cell_text(item, column) ==
    IF column <= Len(items[item]) THEN items[item][column] ELSE <<>>

\* ------------------------------------------- Grid, EntryGrid, KeyValueEntry
\* An optional list argument: None, or a list (possibly empty).
NoneArg == [given |-> FALSE, list |-> <<>>]

ListArg(l) == [given |-> TRUE, list |-> l]

\* Python's truth value of an optional list: None and [] are false.
Truthy(arg) == arg.given /\ Len(arg.list) > 0

\* Python's truth value of an optional string: None and '' are false.
TruthyStr(st) == st \notin {"None", ""}

\* All lists of length 0..n over the set S.
ListsUpTo(S, n) == UNION {[1..k -> S] : k \in 0..n}

\* Grid.__init__(parent, num_of_columns, headers): self.headers and self.rows
\* start empty; a non-empty headers of another length raises ValueError, else
\* one label per header is kept.
Grid_init(columns, headers) ==
    LET raises == Truthy(headers) /\ Len(headers.list) # columns
    IN [raised |-> IF raises THEN "ValueError" ELSE "none",
        grid |-> [num_of_columns |-> columns,
                  headers |-> IF Truthy(headers) /\ ~raises
                              THEN headers.list ELSE <<>>,
                  rows |-> <<>>]]

\* The <Tab> bindings EntryGrid.add_row leaves: none but the one on the last
\* entry of the last row.
rebind_Tab(grid_rows) ==
    LET n == Len(grid_rows)
    IN [r \in 1..n |->
          [c \in 1..Len(grid_rows[r]) |->
              [grid_rows[r][c] EXCEPT !.tab = (r = n /\ c = Len(grid_rows[n]))]]]

\* EntryGrid.add_row(data) on the grid g: a non-empty data of another length
\* than the headers raises ValueError before anything changes; else a row of one
\* entry per element (None shown as ''), or of num_of_columns blank entries, is
\* appended and <Tab> is rebound.
EntryGrid_add_row(g, data) ==
    IF Len(g.headers) > 0 /\ Truthy(data) /\ Len(g.headers) # Len(data.list)
    THEN [raised |-> "ValueError", grid |-> g]
    ELSE LET row == IF Truthy(data)
                    THEN [i \in 1..Len(data.list) |-> Entry(data.list[i])]
                    ELSE [i \in 1..g.num_of_columns |-> Entry(<<>>)]
         IN [raised |-> "none",
             grid |-> [g EXCEPT !.rows = rebind_Tab(Append(g.rows, row))]]

\* Grid.remove_row(row_number): nothing on an empty grid; else
\* self.rows.pop(row_number), which counts a negative index from the end and
\* raises IndexError outside -len..len-1.
Grid_remove_row(g, row_number) ==
    LET n == Len(g.rows)
        k == IF row_number < 0 THEN row_number + n ELSE row_number
    IN IF n = 0 THEN [raised |-> "none", grid |-> g]
       ELSE IF k < 0 \/ k >= n THEN [raised |-> "IndexError", grid |-> g]
       ELSE [raised |-> "none",
             grid |-> [g EXCEPT !.rows =
                         [r \in 1..(n - 1) |->
                            IF r <= k THEN g.rows[r] ELSE g.rows[r + 1]]]]

\* Grid.clear(): remove_row(0) once per row.
RECURSIVE Grid_clear_n(_, _)
Grid_clear_n(g, n) ==
    IF n = 0 THEN g ELSE Grid_clear_n(Grid_remove_row(g, 0).grid, n - 1)

Grid_clear(g) == Grid_clear_n(g, Len(g.rows))

\* KeyValueEntry.add_row(key, default, unit_label, enable) on the rows k: the
\* key label, default, unit label, enable and a new empty entry are appended,
\* then the loop over every row i puts a true default back into the entry
\* (enabling it first) and sets the entry's state from self.enables[i].
KeyValueEntry_add_row(k, key, default, unit_label, enable) ==
    LET appended ==
            Append(k, [key |-> key,
                       default |-> default,
                       unit_label |-> IF TruthyStr(unit_label) THEN unit_label ELSE "",
                       enable |-> enable,
                       text |-> "",
                       state |-> "normal"])
    IN [i \in 1..Len(appended) |->
          LET row == appended[i]
              defaulted == IF TruthyStr(row.default)
                           THEN [row EXCEPT !.state = "normal", !.text = row.default]
                           ELSE row
          IN IF row.enable \in {"True", "None"}
             THEN [defaulted EXCEPT !.state = "normal"]
             ELSE IF row.enable = "False"
             THEN [defaulted EXCEPT !.state = "disabled"]
             ELSE defaulted]

\* The loop at the end of KeyValueEntry.__init__: add_row for keys[i..].
RECURSIVE add_rows_from(_, _, _, _, _, _)
add_rows_from(k, i, keys, defaults, unit_labels, enables) ==
    IF i > Len(keys) THEN k
    ELSE add_rows_from(
            KeyValueEntry_add_row(
                k, keys[i],
                IF Truthy(defaults) THEN defaults.list[i] ELSE "None",
                IF Truthy(unit_labels) THEN unit_labels.list[i] ELSE "None",
                IF Truthy(enables) THEN enables.list[i] ELSE "None"),
            i + 1, keys, defaults, unit_labels, enables)

\* KeyValueEntry.__init__(parent, keys, defaults, unit_labels, enables): a
\* non-empty defaults, unit_labels or enables of another length than keys
\* raises ValueError before any list exists; else one row per key is added.
KeyValueEntry_init(keys, defaults, unit_labels, enables) ==
    IF \/ Truthy(defaults) /\ Len(keys) # Len(defaults.list)
       \/ Truthy(unit_labels) /\ Len(keys) # Len(unit_labels.list)
       \/ Truthy(enables) /\ Len(keys) # Len(enables.list)
    THEN [raised |-> "ValueError", kve |-> <<>>]
    ELSE [raised |-> "none",
          kve |-> add_rows_from(<<>>, 1, keys, defaults, unit_labels, enables)]

\* What delete(0, END) followed by insert(0, st) leaves in an entry: a disabled
\* entry ignores both.
set_text(row, st) == IF row.state = "normal" THEN [row EXCEPT !.text = st] ELSE row

\* KeyValueEntry.reset(): every entry is emptied and its default, unless None,
\* inserted.
KeyValueEntry_reset(k) ==
    [i \in 1..Len(k) |->
        set_text(k[i], IF k[i].default # "None" THEN k[i].default ELSE "")]

\* KeyValueEntry.change_enables(enables_list): entry i is enabled when
\* enables_list[i] is true, else disabled.
KeyValueEntry_change_enables(k, enables_list) ==
    [i \in 1..Len(k) |->
        [k[i] EXCEPT !.state = IF enables_list[i] THEN "normal" ELSE "disabled"]]

\* KeyValueEntry.load(data): every row whose key is in data gets the value as
\* its text, enabled for the time of the change when it was disabled.
KeyValueEntry_load(k, data) ==
    [i \in 1..Len(k) |->
        IF k[i].key \in DOMAIN data
        THEN [k[i] EXCEPT !.text = data[k[i].key]]
        ELSE k[i]]

FormHist(op, raised, args, before) ==
    [op |-> op, raised |-> raised, args |-> args, before |-> before]

\* The arguments the forms are exercised with.
Columns == 1..MaxGridCols

Headers == {NoneArg} \cup {ListArg(l) : l \in ListsUpTo({"h"}, MaxGridCols + 1)}

RowData == {NoneArg} \cup {ListArg(l) : l \in ListsUpTo({None, <<"x">>}, MaxGridCols)}

RowNumbers == (-MaxGridRows - 1)..MaxGridRows

Keys == {"a", "b"}

Defaults == {"None", "d"}

UnitLabels == {"None", "u"}

Enables == {"None", "True", "False"}

OptionalList(S) == {NoneArg} \cup {ListArg(l) : l \in ListsUpTo(S, MaxKeys)}

InitForms ==
    /\ NoSheet
    /\ NoCalendar
    /\ NoForms

\* EntryGrid(parent, num_of_columns, headers), the first thing the program does.
EntryGrid_construct ==
    /\ form_hist.op = "none"
    /\ \E columns \in Columns, headers \in Headers :
          LET r == Grid_init(columns, headers)
          IN /\ form_grid' = r.grid
             /\ form_hist' = FormHist("Grid.__init__", r.raised,
                                      [num_of_columns |-> columns, headers |-> headers],
                                      None)
    /\ UNCHANGED <<kve, sheetVars, calVars>>

\* KeyValueEntry(parent, keys, defaults, unit_labels, enables), the first thing
\* the program does.
KeyValueEntry_construct ==
    /\ form_hist.op = "none"
    /\ \E keys \in ListsUpTo(Keys, MaxKeys),
          defaults \in OptionalList(Defaults \cup {""}),
          unit_labels \in OptionalList(UnitLabels),
          enables \in OptionalList(Enables) :
          LET r == KeyValueEntry_init(keys, defaults, unit_labels, enables)
          IN /\ kve' = r.kve
             /\ form_hist' = FormHist("KeyValueEntry.__init__", r.raised,
                                      [keys |-> keys, defaults |-> defaults,
                                       unit_labels |-> unit_labels, enables |-> enables],
                                      None)
    /\ UNCHANGED <<form_grid, sheetVars, calVars>>

\* An EntryGrid was constructed; a KeyValueEntry was constructed.
GridBuilt ==
    \/ form_hist.op = "Grid.__init__" /\ form_hist.raised = "none"
    \/ form_hist.op = "EntryGrid"

KeyValueBuilt ==
    \/ form_hist.op = "KeyValueEntry.__init__" /\ form_hist.raised = "none"
    \/ form_hist.op \in {"KeyValueEntry", "KeyValueEntry.add_row"}

\* entry_grid.add_row(data)
add_row_to_grid ==
    /\ GridBuilt
    /\ Len(form_grid.rows) < MaxGridRows
    /\ \E data \in RowData :
          LET r == EntryGrid_add_row(form_grid, data)
          IN /\ form_grid' = r.grid
             /\ form_hist' = FormHist("EntryGrid", r.raised, None, None)
    /\ UNCHANGED <<kve, sheetVars, calVars>>

\* The user presses <Tab> in an entry that has the binding: add_row().
press_Tab ==
    /\ GridBuilt
    /\ Len(form_grid.rows) < MaxGridRows
    /\ \E r \in 1..Len(form_grid.rows) : \E c \in 1..Len(form_grid.rows[r]) :
          form_grid.rows[r][c].tab
    /\ form_grid' = EntryGrid_add_row(form_grid, NoneArg).grid
    /\ form_hist' = FormHist("EntryGrid", "none", None, None)
    /\ UNCHANGED <<kve, sheetVars, calVars>>

\* entry_grid.remove_row(row_number)
remove_row_of_grid ==
    /\ GridBuilt
    /\ \E row_number \in RowNumbers :
          LET r == Grid_remove_row(form_grid, row_number)
          IN /\ form_grid' = r.grid
             /\ form_hist' = FormHist("EntryGrid", r.raised, None, None)
    /\ UNCHANGED <<kve, sheetVars, calVars>>

\* entry_grid.clear()
clear_grid ==
    /\ GridBuilt
    /\ form_grid' = Grid_clear(form_grid)
    /\ form_hist' = FormHist("EntryGrid", "none", None, None)
    /\ UNCHANGED <<kve, sheetVars, calVars>>

\* kve.add_row(key, default, unit_label, enable)
add_row_to_kve ==
    /\ KeyValueBuilt
    /\ Len(kve) < MaxKeys
    /\ \E key \in Keys, default \in Defaults, unit_label \in UnitLabels,
          enable \in Enables :
          /\ kve' = KeyValueEntry_add_row(kve, key, default, unit_label, enable)
          /\ form_hist' = FormHist("KeyValueEntry.add_row", "none", None, kve)
    /\ UNCHANGED <<form_grid, sheetVars, calVars>>

\* kve.reset()
reset ==
    /\ KeyValueBuilt
    /\ kve' = KeyValueEntry_reset(kve)
    /\ form_hist' = FormHist("KeyValueEntry", "none", None, None)
    /\ UNCHANGED <<form_grid, sheetVars, calVars>>

\* kve.change_enables(enables_list), one element per row
change_enables ==
    /\ KeyValueBuilt
    /\ \E enables_list \in [1..Len(kve) -> BOOLEAN] :
          kve' = KeyValueEntry_change_enables(kve, enables_list)
    /\ form_hist' = FormHist("KeyValueEntry", "none", None, None)
    /\ UNCHANGED <<form_grid, sheetVars, calVars>>

\* kve.load(data), data a dict over some of the keys
load ==
    /\ KeyValueBuilt
    /\ \E some \in SUBSET Keys : \E data \in [some -> {"x"}] :
          kve' = KeyValueEntry_load(kve, data)
    /\ form_hist' = FormHist("KeyValueEntry", "none", None, None)
    /\ UNCHANGED <<form_grid, sheetVars, calVars>>

\* The user replaces the text of an enabled entry.
type_text ==
    /\ KeyValueBuilt
    /\ \E i \in 1..Len(kve) : \E st \in {"", "x"} :
          /\ kve[i].state = "normal"
          /\ kve' = [kve EXCEPT ![i].text = st]
    /\ form_hist' = FormHist("KeyValueEntry", "none", None, None)
    /\ UNCHANGED <<form_grid, sheetVars, calVars>>

NextForms ==
    \/ EntryGrid_construct
    \/ KeyValueEntry_construct
    \/ add_row_to_grid
    \/ press_Tab
    \/ remove_row_of_grid
    \/ clear_grid
    \/ add_row_to_kve
    \/ reset
    \/ change_enables
    \/ load
    \/ type_text

SpecForms == InitForms /\ [][NextForms]_vars

\* ----------------------------------------------------------------- claims
StepOf(op, page) ==
    IF ~page THEN 1
    ELSE IF op \in {"move_up", "move_down"} THEN rows_to_display
    ELSE cols_to_display

\* C1: move_up / move_left with step 1 (single) or the page size (page): when the
\* offset on the moved axis is >= step it becomes old - step, otherwise the move
\* is refused and current_position is unchanged (never clamped to 0); the other
\* axis is unchanged in both cases.
C1_UpLeftStepOrRefuse ==
    LET old == last_call.from
        step == StepOf(last_call.op, last_call.page)
    IN /\ last_call.op = "move_up" =>
            current_position =
                (IF old[1] >= step THEN <<old[1] - step, old[2]>> ELSE old)
       /\ last_call.op = "move_left" =>
            current_position =
                (IF old[2] >= step THEN <<old[1], old[2] - step>> ELSE old)

\* A page-up from a row offset between 1 and rows_to_display - 1 was refused.
C1_Witness ==
    /\ last_call.op = "move_up"
    /\ last_call.page
    /\ last_call.from[1] > 0
    /\ last_call.from[1] < rows_to_display
    /\ current_position = last_call.from

\* C2: move_down / move_right always add exactly the step to the moved axis,
\* whatever the sheet's size, and leave the other axis alone.
C2_DownRightAlwaysStep ==
    LET old == last_call.from
        step == StepOf(last_call.op, last_call.page)
    IN /\ last_call.op = "move_down" =>
            current_position = <<old[1] + step, old[2]>>
       /\ last_call.op = "move_right" =>
            current_position = <<old[1], old[2] + step>>

\* A move down from the last sheet row or beyond went through.
C2_Witness ==
    /\ last_call.op = "move_down"
    /\ last_call.from[1] >= sheet.nrows - 1
    /\ current_position[1] > last_call.from[1]

\* C3: both components of current_position are non-negative integers.
C3_PositionNonNegative ==
    /\ current_position[1] \in Nat
    /\ current_position[2] \in Nat

\* A single move left was attempted at column offset 0, after the view had moved.
C3_Witness ==
    /\ last_call.op = "move_left"
    /\ ~last_call.page
    /\ last_call.from[2] = 0
    /\ last_call.from[1] > 0
    /\ current_position[2] = 0

\* The entry of displayed row r, column c shows the sheet cell at
\* (row_offset + r - 1, col_offset + c - 1).
ShowsSheetCell(r, c) ==
    LET i == current_position[1] + r - 1
        j == current_position[2] + c - 1
    IN /\ i < sheet.nrows
       /\ j < sheet.ncols
       /\ rows[r][c].text = <<i, j>>

\* C4: the loaded window has at most rows_to_display rows, each of at most
\* cols_to_display sheet cells, starting at (row_offset, col_offset).
C4_WindowWithinPage ==
    /\ Len(rows) <= rows_to_display
    /\ \A r \in 1..Len(rows) :
          LET cells == {c \in 1..Len(rows[r]) : rows[r][c].text # <<>>}
          IN /\ Cardinality(cells) <= cols_to_display
             /\ \A c \in cells : ShowsSheetCell(r, c)

\* C5: when fewer than rows_to_display sheet rows remain at or after row_offset
\* the window holds exactly those rows, and every displayed row consists of
\* cells of a sheet row: no row of blank entries is made up.
C5_NoFabricatedRows ==
    LET remaining == Max(sheet.nrows - current_position[1], 0)
    IN /\ remaining < rows_to_display => Len(rows) = remaining
       /\ \A r \in 1..Len(rows) :
             \A c \in 1..Len(rows[r]) : ShowsSheetCell(r, c)

\* The month after / before the month of date d, by the calendar.
MonthAfter(d) ==
    IF d.month = 12
    THEN [year |-> d.year + 1, month |-> 1, day |-> 1]
    ELSE [year |-> d.year, month |-> d.month + 1, day |-> 1]

MonthBefore(d) ==
    IF d.month = 1
    THEN [year |-> d.year - 1, month |-> 12, day |-> 1]
    ELSE [year |-> d.year, month |-> d.month - 1, day |-> 1]

NoDate == [raised |-> "none", value |-> None]

\* C6: selection is None whenever no valid click has happened since construction
\* or since the most recent _next_month / _prev_month.
C6_NoSelectionAfterMonthChange ==
    hist # None /\ ~hist.clicked => selection = NoDate

\* C7: with the displayed year kept within 2..9998, reading selection never
\* raises and gives None or a valid date of the displayed (year, month).
C7_SelectionTotal ==
    (kwargs # None /\ kwargs.year \in 2..9998 /\ _date.year \in 2..9998) =>
        /\ selection.raised = "none"
        /\ \/ selection.value = None
           \/ /\ selection.value.year = _date.year
              /\ selection.value.month = _date.month
              /\ selection.value.day \in 1..days_in_month(_date.year, _date.month)

\* The click at (item, column) falls on a non-empty day cell.
OnDayCell(item, column) ==
    /\ item \in 1..6
    /\ column \in 1..7
    /\ column <= Len(items[item])
    /\ items[item][column] # <<>>

\* C8: a click on the header row, outside the columns, on an empty week row or on
\* an empty cell raises nothing, leaves _selection as it was and does not invoke
\* the callback; a click on a day cell (whose bbox is known) sets the selection
\* to that day, at that row and column, and invokes the callback once if there
\* is one.
C8_ClickInertOrSelects ==
    [][(hist'.op = "_pressed" /\ click' # None) =>
          /\ hist'.raised = "none"
          /\ IF OnDayCell(click'.item, click'.column) /\ click'.bbox
             THEN /\ _selection' = <<items[click'.item][click'.column],
                                     click'.item, click'.column>>
                  /\ int(_selection'[1]) \in 1..days_in_month(_date.year, _date.month)
                  /\ hist'.calls = (IF callback THEN 1 ELSE 0)
             ELSE /\ _selection' = _selection
                  /\ hist'.calls = 0]_vars

\* A visible empty cell was clicked with a callback registered: nothing was
\* selected and the callback was not invoked.
C8_Witness ==
    /\ hist # None
    /\ hist.op = "_pressed"
    /\ click # None
    /\ click.item \in 1..6
    /\ click.column \in 1..7
    /\ Len(items[click.item]) = 7
    /\ items[click.item][click.column] = <<>>
    /\ click.bbox
    /\ callback
    /\ _selection = None
    /\ hist.calls = 0

\* C9 as stated: _next_month always yields the following month and _prev_month
\* the preceding one, with the year adjusted at the ends of the year.
C9_MonthStepEverywhere ==
    [][/\ hist'.op = "_next_month" => _date' = MonthAfter(_date)
       /\ hist'.op = "_prev_month" => _date' = MonthBefore(_date)]_vars

\* C9 (amended): as above except at (9999, 12), where _next_month raises
\* OverflowError, and at (1, 1), where _prev_month does, each leaving _date as it
\* was; after a navigation the month is in 1..12 and the day is 1.
C9_MonthStepOrOverflow ==
    [][/\ hist'.op = "_next_month" =>
            IF _date.year = MAXYEAR /\ _date.month = 12
            THEN hist'.raised = "OverflowError" /\ _date' = _date
            ELSE hist'.raised = "none" /\ _date' = MonthAfter(_date)
       /\ hist'.op = "_prev_month" =>
            IF _date.year = MINYEAR /\ _date.month = 1
            THEN hist'.raised = "OverflowError" /\ _date' = _date
            ELSE hist'.raised = "none" /\ _date' = MonthBefore(_date)
       /\ hist'.op \in {"_next_month", "_prev_month"} =>
            _date'.month \in 1..12 /\ _date'.day = 1]_vars

\* _next_month has rolled December over into January of the next year.
C9_Witness ==
    /\ hist # None
    /\ hist.op = "_next_month"
    /\ hist.raised = "none"
    /\ hist.from.month = 12
    /\ _date = [year |-> hist.from.year + 1, month |-> 1, day |-> 1]

\* C10 as stated: _next_month followed by _prev_month shows the month it started
\* from, for every starting month of the years 1..9999.
C10_RoundTripEverywhere ==
    [][(hist.op = "_next_month" /\ hist'.op = "_prev_month") =>
          _date' = hist.from]_vars

\* C10 (amended): the round trip holds from every month but (9999, 12); there
\* _next_month raises OverflowError and the following _prev_month shows
\* (9999, 11).
C10_RoundTripButLastMonth ==
    [][(hist.op = "_next_month" /\ hist'.op = "_prev_month") =>
          /\ hist'.raised = "none"
          /\ IF hist.from.year = MAXYEAR /\ hist.from.month = 12
             THEN /\ hist.raised = "OverflowError"
                  /\ _date' = [year |-> MAXYEAR, month |-> 11, day |-> 1]
             ELSE /\ hist.raised = "none"
                  /\ _date' = hist.from]_vars

\* A calendar constructed at (1, 1) is back there after _next_month, _prev_month.
C10_Witness ==
    /\ kwargs = [year |-> MINYEAR, month |-> 1]
    /\ hist.op = "_prev_month"
    /\ hist.raised = "none"
    /\ hist.from = [year |-> MINYEAR, month |-> 2, day |-> 1]
    /\ _date = [year |-> MINYEAR, month |-> 1, day |-> 1]

\* The number of days of a month by the Gregorian rules.
GregorianDays(year, month) ==
    IF month \in {4, 6, 9, 11} THEN 30
    ELSE IF month # 2 THEN 31
    ELSE IF year % 400 = 0 \/ (year % 4 = 0 /\ year % 100 # 0) THEN 29
    ELSE 28

DayCells == {ic \in (1..Len(items)) \X WeekColumns : cell_text(ic[1], ic[2]) # <<>>}

\* C11: the built grid is six week rows over the seven columns (a row holds a
\* full week of seven values, or none and shows seven empty cells), and its
\* non-empty cells are as many as the month has days by the Gregorian
\* leap-year rules.
C11_SixWeeksAllDays ==
    /\ Len(items) = 6
    /\ \A i \in 1..Len(items) : Len(items[i]) \in {0, 7}
    /\ Cardinality(DayCells) = GregorianDays(_date.year, _date.month)

\* February 2024, reached from January, shows 29 days.
C11_Witness ==
    /\ hist.op = "_next_month"
    /\ _date = [year |-> 2024, month |-> 2, day |-> 1]
    /\ Cardinality(DayCells) = 29

\* The column (1 = Sunday .. 7 = Saturday) of day 1 of a month, by Zeller's
\* congruence.
ZellerColumn(year, month) ==
    LET m == IF month < 3 THEN month + 12 ELSE month
        y == IF month < 3 THEN year - 1 ELSE year
        K == y % 100
        J == y \div 100
        h == (1 + ((13 * (m + 1)) \div 5) + K + (K \div 4) + (J \div 4) + 5 * J) % 7
    IN ((h + 6) % 7) + 1

\* C12: read in row-major order, the cells from day 1's column (its weekday,
\* counted from Sunday) hold 01, 02, ..., D and every other cell is empty.
C12_DaysInOrderFromWeekday ==
    LET first == ZellerColumn(_date.year, _date.month)
        D == GregorianDays(_date.year, _date.month)
    IN \A i \in 1..6 : \A c \in WeekColumns :
          LET k == (i - 1) * 7 + c
          IN IF k >= first /\ k < first + D
             THEN /\ Len(cell_text(i, c)) = 2
                  /\ int(cell_text(i, c)) = k - first + 1
             ELSE cell_text(i, c) = <<>>

\* A rebuilt month that starts after Sunday and runs into the sixth week.
C12_Witness ==
    /\ hist.op = "_prev_month"
    /\ hist.raised = "none"
    /\ cell_text(1, 1) = <<>>
    /\ cell_text(6, 1) # <<>>

\* C13: a constructor given a parallel list of another length than its
\* reference (headers against num_of_columns; defaults, unit_labels or enables
\* against keys) raises ValueError and creates no header label and no row.
C13_MismatchRaises ==
    /\ (/\ form_hist.op = "Grid.__init__"
        /\ form_hist.args.headers.given
        /\ Len(form_hist.args.headers.list) # form_hist.args.num_of_columns)
       => (form_hist.raised = "ValueError" /\ form_grid.headers = <<>>)
    /\ (/\ form_hist.op = "KeyValueEntry.__init__"
        /\ \E supplied \in {form_hist.args.defaults, form_hist.args.unit_labels,
                            form_hist.args.enables} :
              supplied.given /\ Len(supplied.list) # Len(form_hist.args.keys))
       => (form_hist.raised = "ValueError" /\ kve = <<>>)

\* The entries of the grid that carry the <Tab> binding, as (row, column).
TabEntries ==
    {rc \in (1..Len(form_grid.rows)) \X (1..MaxGridCols) :
        rc[2] <= Len(form_grid.rows[rc[1]]) /\ form_grid.rows[rc[1]][rc[2]].tab}

\* C14: an EntryGrid with at least one row has <Tab> bound on exactly one
\* entry, the last entry of its last row.
C14_TabOnLastEntry ==
    Len(form_grid.rows) >= 1
       => TabEntries = {<<Len(form_grid.rows),
                          Len(form_grid.rows[Len(form_grid.rows)])>>}

\* C15: after KeyValueEntry.add_row every row that existed before has the
\* entry text and the enabled/disabled state it had before.
C15_AddRowKeepsExistingRows ==
    form_hist.op = "KeyValueEntry.add_row"
       => \A i \in 1..Len(form_hist.before) :
             /\ kve[i].text = form_hist.before[i].text
             /\ kve[i].state = form_hist.before[i].state

====
